---- MODULE Spec2Model ----
(***************************************************************************)
(* Forest_Fire.py: a Streamlit page that loads a pickled scaler and model, *)
(* reads a region selector, eight number inputs and an optional CSV        *)
(* upload, and renders a single-record estimate, a batch table, a trend    *)
(* chart and a footer.  Streamlit re-executes the whole script, top to     *)
(* bottom, on every interaction; one behaviour of this module is one       *)
(* browser session, one "run" is one execution of the script.              *)
(*                                                                         *)
(* Numbers: field values are the entered readings; predictions are kept in *)
(* thousandths of an FWI unit so that the two-decimal formatting of line   *)
(* 63 / 96 is a real rounding.                                             *)
(***************************************************************************)
EXTENDS Integers, Sequences, FiniteSets, TLC

VARIABLES
    disk,        \* the two pickle files, fixed for the session
    model,       \* script global `model` of the current run (option)
    scaler,      \* script global `scaler` of the current run (option)
    loads,       \* successful pickle.load calls since process start
    runs,        \* script runs started since process start
    pc,          \* position of the script: "idle" between runs
    cause,       \* the interaction that triggered the current / last run
    region_sel,  \* widget state of the region selectbox
    num,         \* widget state of the eight number inputs
    uploaded_file, \* widget state of the file uploader (option)
    env,         \* script locals region_name, region, temp .. ISI (option)
    out,         \* elements rendered by the current / last run
    calls,       \* scaler / model calls made by the current / last run
    raised,      \* exceptions raised in the current / last run, caught or not
    memo         \* one earlier displayed estimate with its inputs (option)

vars == <<disk, model, scaler, loads, runs, pc, cause, region_sel, num,
          uploaded_file, env, out, calls, raised, memo>>

(* ---------------------------- bounds ---------------------------------- *)
MaxRuns == 5
MaxEdited == 2

(* --------------------------- option values ---------------------------- *)
None == <<>>
Some(x) == <<x>>

(* ------------------------- pickled artifacts -------------------------- *)
\* A fitted scaler: centres n columns; rejects any other width with `err`.
S9 == [ok |-> TRUE, n |-> 9, mean |-> <<1, 25, 45, 10, 0, 85, 50, 200, 5>>, err |-> "ValueError"]
S8 == [ok |-> TRUE, n |-> 8, mean |-> <<25, 45, 10, 0, 85, 50, 200, 5>>, err |-> "ValueError"]
S8T == [ok |-> TRUE, n |-> 8, mean |-> <<25, 45, 10, 0, 85, 50, 200, 5>>, err |-> "TypeError"]
\* A fitted linear model: coefficients and intercept in thousandths.
M9 == [ok |-> TRUE, n |-> 9, coef |-> <<500, 125, -40, 60, -900, 35, 15, 4, 333>>, intercept |-> 7215]
M8 == [ok |-> TRUE, n |-> 8, coef |-> <<125, -40, 60, -900, 35, 15, 4, 333>>, intercept |-> 7215]
\* A file that is missing, corrupt or not a pickle.
BadScaler == [ok |-> FALSE, n |-> 0, mean |-> <<>>, err |-> "ValueError"]
BadModel == [ok |-> FALSE, n |-> 0, coef |-> <<>>, intercept |-> 0]

ScalerFiles == {S9, S8, S8T, BadScaler}
ModelFiles == {M9, M8, BadModel}

(* ------------------------------ widgets ------------------------------- *)
region_map == [r \in {"Bejaia", "Sidi-Bel Abbes"} |-> IF r = "Bejaia" THEN 1 ELSE 2]
RegionOptions == DOMAIN region_map

FieldNames == {"temp", "RH", "Ws", "Rain", "FFMC", "DMC", "DC", "ISI"}
NumDefaults == [temp |-> 25, RH |-> 45, Ws |-> 10, Rain |-> 0,
                FFMC |-> 85, DMC |-> 50, DC |-> 200, ISI |-> 5]
\* one other reading per field, enough to tell the fields apart
NumOther == [temp |-> 30, RH |-> 60, Ws |-> 15, Rain |-> 3,
             FFMC |-> 90, DMC |-> 55, DC |-> 250, ISI |-> 8]
NumChoices(f) == {NumDefaults[f], NumOther[f]}
Edited(n) == {f \in FieldNames : n[f] # NumDefaults[f]}

\* a button that reads true in every run
ButtonAlways(label) == TRUE

\* st.button: true only in the run triggered by a click on that button
Button(label) == cause = label

(* ------------------------------ uploads ------------------------------- *)
PredCol == "Predicted FWI"
Header9 == <<"Region", "Temperature", "RH", "Ws", "Rain", "FFMC", "DMC", "DC", "ISI">>
\* a file is its lines, the header line first, each line a sequence of cells
F_good == <<Header9, <<1, 30, 45, 10, 0, 85, 50, 200, 5>>, <<2, 25, 60, 10, 0, 85, 50, 200, 8>>>>
F_short == <<<<"Temperature", "RH", "Ws", "Rain", "FFMC", "DMC", "DC", "ISI">>,
             <<30, 45, 10, 0, 85, 50, 200, 5>>>>
F_clash == <<<<"Region", "Temperature", PredCol, "Ws", "Rain", "FFMC", "DMC", "DC", "ISI">>,
             <<1, 25, 45, 15, 0, 85, 50, 200, 5>>, <<2, 25, 45, 10, 3, 85, 50, 200, 5>>>>
F_ragged == <<<<"a", "b">>, <<1, 2, 3>>>>
F_empty == <<>>
UploadChoices == {F_good, F_short, F_clash, F_ragged, F_empty}

(* --------------------------- rendered page ---------------------------- *)
Blank == [widgets |-> FALSE, estimate |-> None, gauge |-> None,
          reportBtn |-> FALSE, report |-> None, mismatch |-> FALSE,
          hint |-> FALSE, preview |-> None, batchTable |-> None,
          csv |-> None, batchError |-> FALSE, trend |-> None,
          footer |-> FALSE, exception |-> None]

Init ==
    /\ disk \in [model : ModelFiles, scaler : ScalerFiles]
    /\ model = None
    /\ scaler = None
    /\ loads = [model |-> 0, scaler |-> 0]
    /\ runs = 0
    /\ pc = "idle"
    /\ cause = "none"
    /\ region_sel = "Bejaia"
    /\ num = NumDefaults
    /\ uploaded_file = None
    /\ env = None
    /\ out = Blank
    /\ calls = <<>>
    /\ raised = <<>>
    /\ memo = None

(* ------------------------ scaler and model calls ---------------------- *)
Raise(e) == [exc |-> e, val |-> <<>>]
Return(v) == [exc |-> "none", val |-> v]

\* a load that falls back to whatever object it can build
UnpickleFallback(f) == Return(f)

\* pickle.load on an artifact file
Unpickle(f) == IF f.ok THEN Return(f) ELSE Raise("UnpicklingError")

\* no handler around the single-record calls
SingleCatchesNothing(e) == FALSE

\* except ValueError (line 100)
SingleCatches(e) == e = "ValueError"

\* a batch handler as narrow as the single-record one
BatchCatchesNarrow(e) == e = "ValueError"

\* except Exception (line 121)
BatchCatches(e) == TRUE

RECURSIVE Dot(_, _)
Dot(a, b) == IF a = <<>> THEN 0 ELSE Head(a) * Head(b) + Dot(Tail(a), Tail(b))

\* a scaler refitted by an upload: its centre moves while a file is uploaded
TransformRefit(s, X) ==
    IF X = <<>> \/ \E i \in 1..Len(X) : Len(X[i]) # s.n
    THEN Raise(s.err)
    ELSE Return([i \in 1..Len(X) |-> [j \in 1..s.n |->
                    X[i][j] - s.mean[j] - (IF uploaded_file = None THEN 0 ELSE 1)]])

\* scaler.transform(X): X is a sequence of rows; needs at least one row and
\* exactly s.n columns in every row, otherwise raises s.err
Transform(s, X) ==
    IF X = <<>> \/ \E i \in 1..Len(X) : Len(X[i]) # s.n
    THEN Raise(s.err)
    ELSE Return([i \in 1..Len(X) |-> [j \in 1..s.n |-> X[i][j] - s.mean[j]]])

\* model.predict(X): one value per row, in row order
Predict(m, X) ==
    IF \E i \in 1..Len(X) : Len(X[i]) # m.n
    THEN Raise("ValueError")
    ELSE Return([i \in 1..Len(X) |-> m.intercept + Dot(m.coef, X[i])])

\* f"{predicted_fwi:.2f}": thousandths to hundredths, ties to even
Round2(p) ==
    LET q == p \div 10
        r == p % 10
    IN IF r > 5 \/ (r = 5 /\ q % 2 = 1) THEN q + 1 ELSE q

\* the vector with temperature and humidity exchanged
input_data_swapped(e) ==
    << <<e.region, e.RH, e.temp, e.Ws, e.Rain, e.FFMC, e.DMC, e.DC, e.ISI>> >>

\* np.array([[region, temp, RH, Ws, Rain, FFMC, DMC, DC, ISI]])
input_data(e) ==
    << <<e.region, e.temp, e.RH, e.Ws, e.Rain, e.FFMC, e.DMC, e.DC, e.ISI>> >>

\* the script locals bound by lines 33-53 from the widget values
Locals(r, n) ==
    [region_name |-> r, region |-> region_map[r], temp |-> n.temp,
     RH |-> n.RH, Ws |-> n.Ws, Rain |-> n.Rain, FFMC |-> n.FFMC,
     DMC |-> n.DMC, DC |-> n.DC, ISI |-> n.ISI]

(* ------------------------------- gauge -------------------------------- *)
\* bands that leave 60..70 uncovered
GaugeStepsGap ==
    << [range |-> <<0, 30>>, color |-> "lightgreen"],
       [range |-> <<30, 60>>, color |-> "yellow"],
       [range |-> <<70, 100>>, color |-> "red"] >>

\* colour bands of the indicator, in FWI units
GaugeSteps ==
    << [range |-> <<0, 30>>, color |-> "lightgreen"],
       [range |-> <<30, 70>>, color |-> "yellow"],
       [range |-> <<70, 100>>, color |-> "red"] >>
GaugeAxis == <<0, 100>>

\* go.Figure(go.Indicator(...)) for a prediction v (thousandths)
GaugeFigure(v) == [value |-> v, axis |-> GaugeAxis, steps |-> GaugeSteps]

\* the report text, as its labelled lines
Report(e, p) ==
    << <<"Region", e.region_name>>, <<"Temperature", e.temp>>,
       <<"Humidity", e.RH>>, <<"Wind Speed", e.Ws>>, <<"Rain", e.Rain>>,
       <<"FFMC", e.FFMC>>, <<"DMC", e.DMC>>, <<"DC", e.DC>>,
       <<"ISI", e.ISI>>, <<"Predicted FWI", Round2(p)>> >>

(* ------------------------------- tables ------------------------------- *)
\* pd.read_csv: no lines -> EmptyDataError; a data line longer than the
\* header -> ParserError; otherwise header and rows
read_csv(f) ==
    IF f = <<>> THEN Raise("EmptyDataError")
    ELSE IF \E i \in 2..Len(f) : Len(f[i]) > Len(f[1]) THEN Raise("ParserError")
    ELSE Return([columns |-> f[1], rows |-> Tail(f)])

\* df.head()
DfHead(df) == [df EXCEPT !.rows = SubSeq(df.rows, 1, IF Len(df.rows) < 5 THEN Len(df.rows) ELSE 5)]

ColIndex(cols, name) ==
    IF \E j \in 1..Len(cols) : cols[j] = name
    THEN CHOOSE j \in 1..Len(cols) : cols[j] = name
    ELSE 0

\* df[name] = vals: an existing column of that name is overwritten in
\* place, otherwise the column is appended last
SetColumn(df, name, vals) ==
    LET k == ColIndex(df.columns, name)
    IN IF k = 0
       THEN [columns |-> Append(df.columns, name),
             rows |-> [i \in 1..Len(df.rows) |-> Append(df.rows[i], vals[i])]]
       ELSE [columns |-> df.columns,
             rows |-> [i \in 1..Len(df.rows) |-> [df.rows[i] EXCEPT ![k] = vals[i]]]]

\* df.to_csv(index=False): the header line, then one line per row
to_csv(df) == <<df.columns>> \o df.rows

\* np.random.uniform(10, 80, size=10): two of the possible draws
TrendDraws ==
    { <<10, 17, 25, 33, 41, 48, 56, 64, 72, 80>>,
      <<80, 12, 45, 45, 23, 67, 10, 79, 31, 58>> }

(* ---------------------------- interactions ---------------------------- *)
\* every interaction starts a run of the script in a fresh namespace and
\* replaces the elements of the previous run
StartRun(c) ==
    /\ pc = "idle"
    /\ runs < MaxRuns
    /\ runs' = runs + 1
    /\ cause' = c
    /\ pc' = "load_model"
    /\ model' = None
    /\ scaler' = None
    /\ env' = None
    /\ out' = Blank
    /\ calls' = <<>>
    /\ raised' = <<>>
    /\ UNCHANGED <<disk, loads, memo>>

\* opening the page, or "Rerun" from the menu: no widget changes
Rerun ==
    /\ StartRun("rerun")
    /\ UNCHANGED <<region_sel, num, uploaded_file>>

SelectRegion ==
    /\ out.widgets
    /\ \E r \in RegionOptions :
          /\ r # region_sel
          /\ region_sel' = r
    /\ StartRun("region")
    /\ UNCHANGED <<num, uploaded_file>>

EditNumber ==
    /\ out.widgets
    /\ \E f \in FieldNames : \E v \in NumChoices(f) :
          /\ v # num[f]
          /\ num' = [num EXCEPT ![f] = v]
          /\ Cardinality(Edited(num')) <= MaxEdited
    /\ StartRun("edit")
    /\ UNCHANGED <<region_sel, uploaded_file>>

Upload ==
    /\ out.widgets
    /\ \E f \in UploadChoices :
          /\ uploaded_file # Some(f)
          /\ uploaded_file' = Some(f)
    /\ StartRun("upload")
    /\ UNCHANGED <<region_sel, num>>

RemoveUpload ==
    /\ out.widgets
    /\ uploaded_file # None
    /\ uploaded_file' = None
    /\ StartRun("upload")
    /\ UNCHANGED <<region_sel, num>>

ClickPredict ==
    /\ out.widgets
    /\ StartRun("predict")
    /\ UNCHANGED <<region_sel, num, uploaded_file>>

\* the report button exists only on a page that shows an estimate
ClickReport ==
    /\ out.reportBtn
    /\ StartRun("report")
    /\ UNCHANGED <<region_sel, num, uploaded_file>>

\* a download button also triggers a run
ClickDownloadCsv ==
    /\ out.csv # None
    /\ StartRun("download")
    /\ UNCHANGED <<region_sel, num, uploaded_file>>

(* ------------------------------ the script ---------------------------- *)
\* an exception nobody catches: the run stops, the traceback is rendered
Abort(where, e) ==
    /\ pc' = "idle"
    /\ raised' = Append(raised, [where |-> where, type |-> e])
    /\ out' = [out EXCEPT !.exception = Some(e)]

\* a model loaded once and cached across runs
LoadModelCached ==
    /\ pc = "load_model"
    /\ IF Unpickle(disk.model).exc = "none"
       THEN /\ model' = Some(Unpickle(disk.model).val)
            /\ loads' = IF loads.model = 0 THEN [loads EXCEPT !.model = 1] ELSE loads
            /\ pc' = "load_scaler"
            /\ UNCHANGED <<out, raised>>
       ELSE /\ Abort("load", Unpickle(disk.model).exc)
            /\ UNCHANGED <<model, loads>>
    /\ UNCHANGED <<disk, scaler, runs, cause, region_sel, num, uploaded_file,
                   env, calls, memo>>

\* lines 10-11
LoadModel ==
    /\ pc = "load_model"
    /\ IF Unpickle(disk.model).exc = "none"
       THEN /\ model' = Some(Unpickle(disk.model).val)
            /\ loads' = [loads EXCEPT !.model = @ + 1]
            /\ pc' = "load_scaler"
            /\ UNCHANGED <<out, raised>>
       ELSE /\ Abort("load", Unpickle(disk.model).exc)
            /\ UNCHANGED <<model, loads>>
    /\ UNCHANGED <<disk, scaler, runs, cause, region_sel, num, uploaded_file,
                   env, calls, memo>>

\* lines 13-14
LoadScaler ==
    /\ pc = "load_scaler"
    /\ IF Unpickle(disk.scaler).exc = "none"
       THEN /\ scaler' = Some(Unpickle(disk.scaler).val)
            /\ loads' = [loads EXCEPT !.scaler = @ + 1]
            /\ pc' = "page"
            /\ UNCHANGED <<out, raised>>
       ELSE /\ Abort("load", Unpickle(disk.scaler).exc)
            /\ UNCHANGED <<scaler, loads>>
    /\ UNCHANGED <<disk, model, runs, cause, region_sel, num, uploaded_file,
                   env, calls, memo>>

\* lines 17-53: page config, hero, sidebar widgets, number inputs
Page ==
    /\ pc = "page"
    /\ out' = [out EXCEPT !.widgets = TRUE]
    /\ env' = Some(Locals(region_sel, num))
    /\ pc' = "single"
    /\ UNCHANGED <<disk, model, scaler, loads, runs, cause, region_sel, num,
                   uploaded_file, calls, raised, memo>>

\* lines 56-102
Single ==
    /\ pc = "single"
    /\ IF Button("predict")
       THEN LET x == input_data(env[1])
                t == Transform(scaler[1], x)
                p == IF t.exc = "none" THEN Predict(model[1], t.val) ELSE Raise(t.exc)
                made == IF t.exc = "none"
                        THEN << [fn |-> "transform", path |-> "single", arg |-> x],
                                [fn |-> "predict", path |-> "single", arg |-> t.val] >>
                        ELSE << [fn |-> "transform", path |-> "single", arg |-> x] >>
            IN /\ calls' = calls \o made
               /\ IF p.exc = "none"
                  THEN LET predicted_fwi == p.val[1]
                           shown == [run |-> runs, inputs |-> env[1],
                                     estimate |-> Round2(predicted_fwi)]
                       IN /\ out' = [out EXCEPT
                                        !.estimate = Some(Round2(predicted_fwi)),
                                        !.gauge = Some(GaugeFigure(predicted_fwi)),
                                        !.reportBtn = TRUE,
                                        !.report = IF Button("report")
                                                   THEN Some(Report(env[1], predicted_fwi))
                                                   ELSE None]
                          /\ memo' \in IF memo = None THEN {None, Some(shown)} ELSE {memo}
                          /\ pc' = "batch"
                          /\ UNCHANGED raised
                  ELSE IF SingleCatches(p.exc)
                  THEN /\ out' = [out EXCEPT !.mismatch = TRUE, !.hint = TRUE]
                       /\ raised' = Append(raised, [where |-> "single", type |-> p.exc])
                       /\ pc' = "batch"
                       /\ UNCHANGED memo
                  ELSE /\ Abort("single", p.exc)
                       /\ UNCHANGED memo
       ELSE /\ pc' = "batch"
            /\ UNCHANGED <<out, calls, raised, memo>>
    /\ UNCHANGED <<disk, model, scaler, loads, runs, cause, region_sel, num,
                   uploaded_file, env>>

\* lines 105-122
Batch ==
    /\ pc = "batch"
    /\ IF uploaded_file # None
       THEN LET r == read_csv(uploaded_file[1])
                df == r.val
                t == IF r.exc = "none" THEN Transform(scaler[1], df.rows) ELSE Raise(r.exc)
                p == IF t.exc = "none" THEN Predict(model[1], t.val) ELSE Raise(t.exc)
                made == IF r.exc # "none" THEN <<>>
                        ELSE IF t.exc # "none"
                        THEN << [fn |-> "transform", path |-> "batch", arg |-> df.rows] >>
                        ELSE << [fn |-> "transform", path |-> "batch", arg |-> df.rows],
                                [fn |-> "predict", path |-> "batch", arg |-> t.val] >>
            IN /\ calls' = calls \o made
               /\ IF p.exc = "none"
                  THEN LET augmented == SetColumn(df, PredCol, p.val)
                       IN /\ out' = [out EXCEPT !.preview = Some(DfHead(df)),
                                                !.batchTable = Some(augmented),
                                                !.csv = Some(to_csv(augmented))]
                          /\ UNCHANGED raised
                          /\ pc' = "trend"
                  ELSE IF BatchCatches(p.exc)
                  THEN /\ out' = [out EXCEPT
                                     !.preview = IF r.exc = "none" THEN Some(DfHead(df)) ELSE None,
                                     !.batchError = TRUE]
                       /\ raised' = Append(raised, [where |-> "batch", type |-> p.exc])
                       /\ pc' = "trend"
                  ELSE /\ Abort("batch", p.exc)
       ELSE /\ pc' = "trend"
            /\ UNCHANGED <<out, calls, raised>>
    /\ UNCHANGED <<disk, model, scaler, loads, runs, cause, region_sel, num,
                   uploaded_file, env, memo>>

\* lines 125-132
Trend ==
    /\ pc = "trend"
    /\ \E h \in TrendDraws : out' = [out EXCEPT !.trend = Some(h)]
    /\ pc' = "footer"
    /\ UNCHANGED <<disk, model, scaler, loads, runs, cause, region_sel, num,
                   uploaded_file, env, calls, raised, memo>>

\* lines 135-136
Footer ==
    /\ pc = "footer"
    /\ out' = [out EXCEPT !.footer = TRUE]
    /\ pc' = "idle"
    /\ UNCHANGED <<disk, model, scaler, loads, runs, cause, region_sel, num,
                   uploaded_file, env, calls, raised, memo>>

Next ==
    \/ Rerun
    \/ SelectRegion
    \/ EditNumber
    \/ Upload
    \/ RemoveUpload
    \/ ClickPredict
    \/ ClickReport
    \/ ClickDownloadCsv
    \/ LoadModel
    \/ LoadScaler
    \/ Page
    \/ Single
    \/ Batch
    \/ Trend
    \/ Footer

Spec == Init /\ [][Next]_vars

(* --------------------- the gauge as a pure function ------------------- *)
\* predictions from -2 to 102 FWI in steps of half a unit
ProbeValues == {k * 500 : k \in -4 .. 204}

ProbeGauge ==
    /\ pc = "idle"
    /\ \E v \in ProbeValues : out' = [out EXCEPT !.gauge = Some(GaugeFigure(v))]
    /\ UNCHANGED <<disk, model, scaler, loads, runs, pc, cause, region_sel,
                   num, uploaded_file, env, calls, raised, memo>>

NextGauge == ProbeGauge

SpecGauge == Init /\ [][NextGauge]_vars

(* ------------------------------ properties ---------------------------- *)
\* the script has executed the single-record block of the current run
PastSingle == pc \in {"batch", "trend", "footer"} \/ (pc = "idle" /\ out.widgets)

RaisedIn(where) == {i \in DOMAIN raised : raised[i].where = where}
CallsOn(path) == {i \in DOMAIN calls : calls[i].path = path}

\* the bands of a figure that contain the value v (thousandths); a band is
\* the closed arc between the two ends of its range
StepsAt(fig, v) ==
    {i \in DOMAIN fig.steps :
        fig.steps[i].range[1] * 1000 <= v /\ v <= fig.steps[i].range[2] * 1000}

\* C1: whenever a batch result is rendered, table and CSV have the uploaded
\* rows in order, every uploaded column with its name, position and values,
\* and exactly one more column, 'Predicted FWI', last, holding the model's
\* prediction for each row.
C1_BatchAppendsOneColumn ==
    out.csv # None =>
        LET f == uploaded_file[1]
            csv == out.csv[1]
            tab == out.batchTable[1]
            preds == Predict(model[1], Transform(scaler[1], Tail(f)).val).val
        IN /\ Len(csv) = Len(f)
           /\ Len(tab.rows) = Len(f) - 1
           /\ csv[1] = Append(f[1], PredCol)
           /\ tab.columns = Append(f[1], PredCol)
           /\ \A i \in 2 .. Len(f) :
                 /\ csv[i] = Append(f[i], preds[i - 1])
                 /\ tab.rows[i - 1] = Append(f[i], preds[i - 1])

\* C2: when a step of the batch block raises, of whatever type, the run
\* renders the 'Error processing file' message, no predictions table and no
\* CSV download, is not aborted, and goes on to the trend chart and footer.
C2_BatchFailureContained ==
    /\ RaisedIn("batch") # {} =>
          /\ out.batchError
          /\ out.batchTable = None
          /\ out.csv = None
          /\ out.exception = None
          /\ pc \in {"trend", "footer", "idle"}
          /\ pc \in {"footer", "idle"} => out.trend # None
          /\ pc = "idle" => out.footer /\ out.widgets
    /\ out.batchError => RaisedIn("batch") # {}

C2_Witness ==
    /\ pc = "idle"
    /\ out.batchError
    /\ out.footer
    /\ \E i \in RaisedIn("batch") : raised[i].type = "TypeError"

\* C3: when the single-record calls raise ValueError, the run renders the
\* 'Input mismatch' error and the hint, no estimate and no gauge, is not
\* aborted, and goes on to the batch block, the trend chart and the footer.
C3_SingleMismatchContained ==
    (\E i \in RaisedIn("single") : raised[i].type = "ValueError") =>
        /\ out.mismatch
        /\ out.hint
        /\ out.estimate = None
        /\ out.gauge = None
        /\ out.exception = None
        /\ pc \in {"batch", "trend", "footer", "idle"}
        /\ (pc \in {"trend", "footer", "idle"} /\ uploaded_file # None) =>
               (out.batchError \/ out.batchTable # None)
        /\ pc \in {"footer", "idle"} => out.trend # None
        /\ pc = "idle" => out.footer

C3_Witness ==
    /\ pc = "idle"
    /\ \E i \in RaisedIn("single") : raised[i].type = "ValueError"
    /\ out.mismatch
    /\ out.batchTable # None
    /\ out.footer

\* C4: the run triggered by a click on 'Download Prediction Report' offers
\* the report, with the selected region, the eight readings and the
\* displayed two-decimal prediction.
C4_ReportOffered ==
    (pc = "idle" /\ cause = "report" /\ out.exception = None) =>
        /\ out.report # None
        /\ out.estimate # None
        /\ out.report[1][1] = <<"Region", region_sel>>
        /\ out.report[1][2] = <<"Temperature", num.temp>>
        /\ out.report[1][10] = <<"Predicted FWI", out.estimate[1]>>

\* C5: every vector handed to scaler.transform by the single-record block is
\* one row (code, temp, RH, Ws, Rain, FFMC, DMC, DC, ISI) of the current
\* widget values, code 1 for Bejaia and 2 for Sidi-Bel Abbes, the only two
\* regions; and every Predict run hands one over.
C5_SingleVectorExact ==
    /\ region_sel \in {"Bejaia", "Sidi-Bel Abbes"}
    /\ \A i \in CallsOn("single") :
          calls[i].fn = "transform" =>
              calls[i].arg =
                  << << IF region_sel = "Bejaia" THEN 1 ELSE 2,
                        num.temp, num.RH, num.Ws, num.Rain,
                        num.FFMC, num.DMC, num.DC, num.ISI >> >>
    /\ (PastSingle /\ cause = "predict") =>
          \E i \in CallsOn("single") : calls[i].fn = "transform"

C5_Witness ==
    /\ \E i \in CallsOn("single") : calls[i].fn = "transform" /\ calls[i].arg[1][1] = 2
    /\ num.RH = 60
    /\ num.DC = 250

C7_SameInputsSameEstimate ==
    (memo # None /\ out.estimate # None /\ env # None) =>
        (memo[1].inputs = env[1] => out.estimate[1] = memo[1].estimate)

C7_Witness ==
    /\ memo # None
    /\ out.estimate # None
    /\ env # None
    /\ memo[1].inputs = env[1]
    /\ memo[1].run + 2 <= runs
    /\ uploaded_file # None
    /\ out.batchError

\* C8 as stated: each artifact is deserialized at most once per process.
C8_LoadedOnce ==
    loads.model <= 1 /\ loads.scaler <= 1

\* C8 amended: every run deserializes the model and the scaler, once each,
\* before any widget is rendered, and nothing in the run replaces or
\* modifies them afterwards.
C8_LoadedEveryRun ==
    /\ (pc = "load_model" /\ disk.model.ok) => loads.model = runs - 1 /\ ~out.widgets
    /\ (pc = "load_scaler" /\ disk.scaler.ok) =>
          loads.model = runs /\ loads.scaler = runs - 1 /\ ~out.widgets
    /\ (pc \in {"page", "single", "batch", "trend", "footer"} \/ out.widgets) =>
          /\ loads.model = runs
          /\ loads.scaler = runs
          /\ model = Some(disk.model)
          /\ scaler = Some(disk.scaler)

C8_Witness ==
    /\ pc = "trend"
    /\ runs = 3
    /\ loads = [model |-> 3, scaler |-> 3]
    /\ calls # <<>>

\* C9: when an artifact fails to load, the run stops there with the error
\* unhandled: one attempt, no object in its place, no widget, no scaler or
\* model call, no estimate, batch result or chart.
C9_LoadFailureFatal ==
    /\ (~disk.model.ok \/ ~disk.scaler.ok) =>
          /\ pc \in {"idle", "load_model", "load_scaler"}
          /\ out \in {Blank, [Blank EXCEPT !.exception = Some("UnpicklingError")]}
          /\ calls = <<>>
          /\ env = None
          /\ ~disk.model.ok => model = None
          /\ scaler = None
          /\ (pc = "idle" /\ runs > 0) =>
                /\ Len(raised) = 1
                /\ raised[1].where = "load"
                /\ out.exception # None
    /\ RaisedIn("load") # {} => (~disk.model.ok \/ ~disk.scaler.ok)

C9_Witness ==
    /\ pc = "idle"
    /\ runs = 2
    /\ disk.model.ok
    /\ ~disk.scaler.ok
    /\ RaisedIn("load") # {}
    /\ model # None

\* C10: a run renders the estimate and the gauge exactly when it was
\* triggered by a click on 'Predict FWI' and the calls did not raise, and
\* makes the single-record calls exactly when it was triggered by that click.
C10_PredictOnlyOnClick ==
    /\ PastSingle =>
          /\ (out.estimate # None) <=> (cause = "predict" /\ RaisedIn("single") = {})
          /\ (out.gauge # None) <=> (out.estimate # None)
          /\ (CallsOn("single") # {}) <=> (cause = "predict")
    /\ ~PastSingle => (out.estimate = None /\ out.gauge = None /\ CallsOn("single") = {})

C10_Witness ==
    /\ pc = "idle"
    /\ cause = "edit"
    /\ out.footer
    /\ out.estimate = None
    /\ memo # None
    /\ memo[1].run = runs - 1
====
